---- MODULE Spec2Model ----
(***************************************************************************)
(* Model of ssmenv/env.py: savessm(param_name) fetches a parameter from    *)
(* the SSM parameter store, parses it with json.loads and writes one       *)
(* "key=value" line per entry to the file .env of the working directory.   *)
(*                                                                         *)
(* Text is a sequence of one-character strings, so that the file is        *)
(* modelled byte by byte.  A JSON text is modelled by its syntax tree.     *)
(***************************************************************************)
EXTENDS Integers, Sequences, FiniteSets, TLC

\* Largest number of members "name": value of a JSON object of the store.
MaxMembers == 2

\* Process slots.  Sequential runs reuse slot 1; parallel runs use both.
Procs == {1, 2}
SeqProcs == {1}

----------------------------------------------------------------------------
\* Text helpers

RECURSIVE Concat(_)
Concat(ss) == IF ss = <<>> THEN <<>> ELSE Head(ss) \o Concat(Tail(ss))

IsPrefix(s, t) == Len(s) <= Len(t) /\ SubSeq(t, 1, Len(s)) = s

Take(s, k) == SubSeq(s, 1, k)

----------------------------------------------------------------------------
\* JSON texts (what the store returns) as syntax trees.  kind "invalid" is a
\* text json.loads rejects.  members holds the members of an object in text
\* order (a name may repeat) or the items of an array (with empty names).

Val(kind, text, members) == [kind |-> kind, text |-> text, members |-> members]
Member(k, v) == [k |-> k, v |-> v]
Item(v) == Member(<<>>, v)

StrV(t) == Val("str", t, <<>>)
NumV(t) == Val("num", t, <<>>)
TrueV == Val("bool", <<"t", "r", "u", "e">>, <<>>)
NullV == Val("null", <<"n", "u", "l", "l">>, <<>>)
ArrV(items) == Val("arr", <<>>, items)
ObjV(members) == Val("obj", <<>>, members)
NotJson == Val("invalid", <<"n", "o", "t", " ", "j", "s", "o", "n">>, <<>>)

\* "\ud800" in a JSON string: json.loads yields a lone surrogate, a code point
\* the file's encoder rejects.
Surrogate == "U+D800"

Keys == {<<"A">>, <<"B">>}
StringVals == {StrV(<<"1">>), StrV(<<"2">>)}
OtherVals == {TrueV, NumV(<<"1">>), StrV(<<Surrogate>>),
              ArrV(<<Item(StrV(<<"a">>))>>)}

\* Members with string values under every key, and members with a value of
\* another kind under the key B.
StringMembers == {Member(k, v) : k \in Keys, v \in StringVals}
Members == StringMembers \cup {Member(<<"B">>, v) : v \in OtherVals}

SeqsUpTo(S, n) == UNION {[1..m -> S] : m \in 0..n}

Objects(members) == {ObjV(ms) : ms \in SeqsUpTo(members, MaxMembers)}

NonObjects == {StrV(<<"5">>), NumV(<<"5">>), TrueV, NullV,
               ArrV(<<Item(NumV(<<"1">>)), Item(NumV(<<"2">>))>>)}

\* Parameter values of the sequential runs, and the smaller set of the
\* parallel runs.
ParamValues == {NotJson} \cup NonObjects \cup Objects(Members)
ParMembers == {Member(<<"A">>, StrV(<<"1">>)), Member(<<"A">>, StrV(<<"2">>)),
               Member(<<"B">>, StrV(<<"2">>))}
ParValues == {NotJson, NullV} \cup Objects(ParMembers)

----------------------------------------------------------------------------
\* json.loads (line 9)

\* Mutant: the parser accepts every text.
JsonValidAlways(v) == TRUE

JsonValid(v) == v.kind # "invalid"

\* d[k] = v on a dict kept as the sequence of its items in insertion order:
\* an existing key keeps its position and takes the new value.
\* Mutant: a repeated key keeps its first value.
DictSetKeepFirst(d, k, v) ==
    IF \E i \in 1..Len(d) : d[i].k = k THEN d ELSE Append(d, Member(k, v))

DictSet(d, k, v) ==
    IF \E i \in 1..Len(d) : d[i].k = k
    THEN [i \in 1..Len(d) |-> IF d[i].k = k THEN Member(k, v) ELSE d[i]]
    ELSE Append(d, Member(k, v))

RECURSIVE DictOf(_, _)
DictOf(members, n) ==
    IF n = 0 THEN <<>>
    ELSE DictSet(DictOf(members, n - 1), members[n].k, members[n].v)

\* The Python value of a JSON text: a dict (its items) or something else.
PyValue(isdict, items) == [isdict |-> isdict, items |-> items]
NoValue == PyValue(FALSE, <<>>)

JsonLoads(v) ==
    IF v.kind = "obj"
    THEN PyValue(TRUE, DictOf(v.members, Len(v.members)))
    ELSE PyValue(FALSE, <<>>)

----------------------------------------------------------------------------
\* f"{key}={value}\n" (line 12): str() of the parsed value

PyScalarStr(v) ==
    CASE v.kind = "bool" -> IF v = TrueV THEN <<"T", "r", "u", "e">>
                            ELSE <<"F", "a", "l", "s", "e">>
      [] v.kind = "null" -> <<"N", "o", "n", "e">>
      [] OTHER -> v.text

PyRepr(v) == IF v.kind = "str" THEN <<"'">> \o v.text \o <<"'">> ELSE PyScalarStr(v)

RECURSIVE PyJoin(_, _)
PyJoin(ms, isobj) ==
    IF ms = <<>> THEN <<>>
    ELSE (IF isobj THEN <<"'">> \o Head(ms).k \o <<"'", ":", " ">> ELSE <<>>)
         \o PyRepr(Head(ms).v)
         \o (IF Len(ms) > 1 THEN <<",", " ">> ELSE <<>>)
         \o PyJoin(Tail(ms), isobj)

PyStr(v) ==
    CASE v.kind = "arr" -> <<"[">> \o PyJoin(v.members, FALSE) \o <<"]">>
      [] v.kind = "obj" -> <<"{">> \o PyJoin(v.members, TRUE) \o <<"}">>
      [] OTHER -> PyScalarStr(v)

FormatLine(k, v) == k \o <<"=">> \o PyStr(v) \o <<"\n">>

\* TextIOWrapper.write encodes the text at once and raises UnicodeEncodeError
\* on a code point the encoding cannot represent.
Encodable(line) == \A i \in 1..Len(line) : line[i] # Surrogate

----------------------------------------------------------------------------
\* The file .env

NoFile == [exists |-> FALSE, data |-> <<>>]

\* open(".env", "w"): O_CREAT | O_TRUNC
\* Mutant: the file is opened without truncation ("r+" instead of "w").
TruncateKeep(f) == [exists |-> TRUE, data |-> f.data]

Truncate(f) == [exists |-> TRUE, data |-> <<>>]

\* write(2) of bytes at offset off of a file description without O_APPEND:
\* the bytes replace what is there and whatever lies beyond them stays.
WriteAt(data, off, bytes) ==
    [i \in 1..(IF off + Len(bytes) > Len(data) THEN off + Len(bytes) ELSE Len(data)) |->
        IF i > off /\ i <= off + Len(bytes) THEN bytes[i - off] ELSE data[i]]

----------------------------------------------------------------------------
\* The environment of a run

\* Command lines: without and with the positional argument.
Argvs == {<<>>, <<"/app/env">>}

\* typer.run(savessm) with param_name: str and no default: the argument is
\* required.
\* Mutant: the parameter has a default, so the argument is optional.
MissingArgumentNever(args) == FALSE

MissingArgument(args) == Len(args) < 1

\* boto3.Session() and session.client('ssm') either succeed or raise.
SessionOutcomes == {"", "ProfileNotFound"}
ClientOutcomes == {"", "NoRegionError"}

\* get_parameter: the store answers with an error code or with a response
\* (holding the value under the key the code reads, or under another key);
\* the request may also fail on the client side for lack of credentials.
StoreErrors == {"ParameterNotFound", "AccessDeniedException"}

FetchOutcomes(values) ==
    {[error |-> e, key |-> "", value |-> NullV] :
        e \in StoreErrors \cup {"NoCredentialsError"}}
    \cup {[error |-> "", key |-> "ParameterValue", value |-> v] : v \in values}
    \cup {[error |-> "", key |-> "Parameter", value |-> NullV]}

\* get_parameter raises botocore's ClientError carrying the store's code.
\* Mutant: the client swallows the store's error.
RaisesNever(outcome) == FALSE

Raises(outcome) == outcome.error # ""

\* An uncaught exception ends the interpreter with status 1.
\* Mutant: the exception is swallowed and the process ends with status 0.
ExitCodeZero(e) == 0

ExitCode(e) == IF e = "" THEN 0 ELSE 1

\* The statements of savessm in program order, and the statement reached
\* when statement s completes.
\* Mutant: the file is opened before the value is parsed.
FollowingOpenFirst(s) ==
    CASE s = "session" -> "client"
      [] s = "client" -> "fetch"
      [] s = "fetch" -> "open"
      [] s = "open" -> "parse"
      [] s = "parse" -> "write"
      [] s = "write" -> "close"
      [] s = "close" -> "done"

Following(s) ==
    CASE s = "session" -> "client"
      [] s = "client" -> "fetch"
      [] s = "fetch" -> "parse"
      [] s = "parse" -> "open"
      [] s = "open" -> "write"
      [] s = "write" -> "close"
      [] s = "close" -> "done"

----------------------------------------------------------------------------
\* State

VARIABLES
    proc,   \* per process slot: the run's position and locals (see Idle)
    file    \* the file .env of the working directory

vars == <<proc, file>>

\* pc: next statement; argv: command line; parameter_value, vars, idx, buf:
\* the locals of savessm, the loop position and the file object's buffer;
\* opened: open() returned a file object; err: the exception being raised;
\* exit: the exit status (-1 while running); usage: usage message printed.
\* History of the run: steps (statements executed), failedAt (the number of
\* statements executed when the first exception was raised, 0 if none),
\* storeErr (the store's error answer), before (the file when the run
\* started), prevExit (the exit status of the run before this one, -1 if
\* none), seenClosed (the runs that had closed the file when this one
\* opened it).
Idle == [pc |-> "idle", argv |-> <<>>, parameter_value |-> NullV,
         vars |-> NoValue, idx |-> 0, buf |-> <<>>, opened |-> FALSE,
         err |-> "", exit |-> -1, usage |-> FALSE, steps |-> <<>>,
         failedAt |-> 0, storeErr |-> "", before |-> NoFile,
         prevExit |-> -1, seenClosed |-> {}]

Init == proc = [p \in Procs |-> Idle] /\ file = NoFile

\* The exception e leaves savessm: the process ends.
Raise(r, e) ==
    [r EXCEPT !.pc = "done", !.err = e, !.exit = ExitCode(e),
              !.failedAt = IF e # "" /\ @ = 0 THEN Len(r.steps) ELSE @]

\* The exception e is raised inside the with block, which closes the file
\* before the exception goes on.
RaiseInWith(r, e) == [r EXCEPT !.pc = "close", !.err = e, !.failedAt = Len(r.steps)]

Did(r, s) == [r EXCEPT !.steps = Append(@, s)]

----------------------------------------------------------------------------
\* Actions

\* The program is started in the working directory.
Launch(p) ==
    /\ proc[p].pc = "idle"
    /\ \E a \in Argvs :
         proc' = [proc EXCEPT ![p] = [@ EXCEPT !.pc = "main", !.argv = a,
                                                !.before = file]]
    /\ UNCHANGED file

\* The process has ended; the program is started again later.
Rerun(p) ==
    /\ proc[p].pc = "done"
    /\ proc' = [proc EXCEPT ![p] = [Idle EXCEPT !.prevExit = proc[p].exit]]
    /\ UNCHANGED file

\* typer.run(savessm): a missing argument is a usage error, status 2
Main(p) ==
    /\ proc[p].pc = "main"
    /\ proc' = [proc EXCEPT ![p] =
                  IF MissingArgument(@.argv)
                  THEN [@ EXCEPT !.pc = "done", !.usage = TRUE, !.exit = 2]
                  ELSE [@ EXCEPT !.pc = "session"]]
    /\ UNCHANGED file

\* session = boto3.Session()
CreateSession(p) ==
    /\ proc[p].pc = "session"
    /\ \E e \in SessionOutcomes :
         proc' = [proc EXCEPT ![p] =
                    IF e = "" THEN [Did(@, "session") EXCEPT !.pc = Following("session")]
                    ELSE Raise(Did(@, "session"), e)]
    /\ UNCHANGED file

\* client = session.client('ssm')
CreateClient(p) ==
    /\ proc[p].pc = "client"
    /\ \E e \in ClientOutcomes :
         proc' = [proc EXCEPT ![p] =
                    IF e = "" THEN [Did(@, "client") EXCEPT !.pc = Following("client")]
                    ELSE Raise(Did(@, "client"), e)]
    /\ UNCHANGED file

\* parameter_value = client.get_parameter(Name=param_name)['ParameterValue']
GetParameter(p, values) ==
    /\ proc[p].pc = "fetch"
    /\ \E o \in FetchOutcomes(values) :
         proc' = [proc EXCEPT ![p] =
                    LET r == [Did(@, "fetch") EXCEPT
                                !.storeErr = IF o.error \in StoreErrors
                                             THEN o.error ELSE ""]
                    IN IF Raises(o) THEN Raise(r, o.error)
                       ELSE IF o.key # "ParameterValue" THEN Raise(r, "KeyError")
                       ELSE [r EXCEPT !.pc = Following("fetch"),
                                      !.parameter_value = o.value]]
    /\ UNCHANGED file

\* vars = json.loads(parameter_value)
Loads(p) ==
    /\ proc[p].pc = "parse"
    /\ LET r == proc[p]
       IN proc' = [proc EXCEPT ![p] =
                     IF JsonValid(r.parameter_value)
                     THEN [Did(r, "parse") EXCEPT !.pc = Following("parse"),
                                                   !.vars = JsonLoads(r.parameter_value)]
                     ELSE Raise(Did(r, "parse"), "JSONDecodeError")]
    /\ UNCHANGED file

\* with open(".env", "w") as f: the file is created or truncated, or open
\* raises and the file is left alone
Open(p) ==
    /\ proc[p].pc = "open"
    /\ \/ /\ proc' = [proc EXCEPT ![p] =
                        [Did(@, "open") EXCEPT
                           !.pc = Following("open"), !.opened = TRUE,
                           !.buf = <<>>, !.idx = 0,
                           !.seenClosed = {q \in Procs \ {p} :
                                             proc[q].pc = "done" /\ proc[q].opened}]]
          /\ file' = Truncate(file)
       \/ /\ proc' = [proc EXCEPT ![p] = Raise(Did(@, "open"), "PermissionError")]
          /\ UNCHANGED file

\* for key, value in vars.items(): a value that is no dict has no items; the
\* exception leaves the with block, which closes the file
ItemsFail(p) ==
    /\ proc[p].pc = "write"
    /\ ~proc[p].vars.isdict
    /\ proc' = [proc EXCEPT ![p] = RaiseInWith(Did(@, "write"), "AttributeError")]
    /\ UNCHANGED file

\* f.write(f"{key}={value}\n"): the line is encoded and buffered
WriteLine(p) ==
    /\ proc[p].pc = "write"
    /\ proc[p].vars.isdict
    /\ proc[p].idx < Len(proc[p].vars.items)
    /\ LET it == proc[p].vars.items[proc[p].idx + 1]
           line == FormatLine(it.k, it.v)
       IN proc' = [proc EXCEPT ![p] =
                     IF Encodable(line)
                     THEN [Did(@, "write") EXCEPT !.buf = @ \o line, !.idx = @ + 1]
                     ELSE RaiseInWith(Did(@, "write"), "UnicodeEncodeError")]
    /\ UNCHANGED file

\* the loop ends
LoopEnd(p) ==
    /\ proc[p].pc = "write"
    /\ proc[p].vars.isdict
    /\ proc[p].idx = Len(proc[p].vars.items)
    /\ proc' = [proc EXCEPT ![p] = [@ EXCEPT !.pc = Following("write")]]
    /\ UNCHANGED file

\* leaving the with block closes f: the buffer (all of the run's output,
\* which is shorter than the buffer) is written at offset 0 of the file, or
\* the write fails with OSError after k of its bytes
Close(p) ==
    /\ proc[p].pc = "close"
    /\ LET r == [Did(proc[p], "close") EXCEPT !.buf = <<>>]
       IN \/ /\ file' = [file EXCEPT !.data = WriteAt(@, 0, proc[p].buf)]
             /\ proc' = [proc EXCEPT ![p] = Raise(r, r.err)]
          \/ /\ proc[p].buf # <<>>
             /\ \E k \in 0..(Len(proc[p].buf) - 1) :
                  file' = [file EXCEPT !.data = WriteAt(@, 0, Take(proc[p].buf, k))]
             /\ proc' = [proc EXCEPT ![p] = Raise(r, "OSError")]

Step(p, values) ==
    \/ Launch(p)
    \/ Main(p)
    \/ CreateSession(p)
    \/ CreateClient(p)
    \/ GetParameter(p, values)
    \/ Loads(p)
    \/ Open(p)
    \/ ItemsFail(p)
    \/ WriteLine(p)
    \/ LoopEnd(p)
    \/ Close(p)

\* Sequential runs: one run after the other.
Next == \E p \in SeqProcs : Step(p, ParamValues) \/ Rerun(p)

Spec == Init /\ [][Next]_vars

\* Two runs in parallel in the same working directory, each started once.
NextPar == \E p \in Procs : Step(p, ParValues)

SpecPar == Init /\ [][NextPar]_vars

----------------------------------------------------------------------------
\* Vocabulary of the properties

Done(p) == proc[p].pc = "done"
Executed(p, s) == \E i \in 1..Len(proc[p].steps) : proc[p].steps[i] = s
\* The run went through savessm to its end without an exception.
Completed(p) == Done(p) /\ proc[p].exit = 0 /\ Executed(p, "close")
\* The run obtained a parameter value from the store.
Fetched(p) ==
    \E i \in 1..Len(proc[p].steps) :
        proc[p].steps[i] = "fetch" /\ proc[p].failedAt # i

StringValued(v) ==
    v.kind = "obj" /\ \A i \in 1..Len(v.members) : v.members[i].v.kind = "str"

\* One line key=value per member of the object's text, in text order.
EnvPerMember(ms) ==
    Concat([i \in 1..Len(ms) |-> ms[i].k \o <<"=">> \o ms[i].v.text \o <<"\n">>])

\* One line per distinct key, placed at the key's first occurrence and
\* holding the value of its last occurrence.
LastValue(ms, k) ==
    ms[CHOOSE i \in 1..Len(ms) :
         ms[i].k = k /\ \A j \in (i + 1)..Len(ms) : ms[j].k # k].v

EnvPerKey(ms) ==
    Concat([i \in 1..Len(ms) |->
              IF \E j \in 1..(i - 1) : ms[j].k = ms[i].k THEN <<>>
              ELSE ms[i].k \o <<"=">> \o LastValue(ms, ms[i].k).text \o <<"\n">>])

\* What a run with parameter value v writes to a file that does not exist.
RunOutput(v) ==
    LET items == JsonLoads(v).items
    IN Concat([i \in 1..Len(items) |-> FormatLine(items[i].k, items[i].v)])

\* The JSON text of a value (json.dumps separators), and the text the
\* specification expects after "key=".
JsonScalar(v) == IF v.kind = "str" THEN <<"\"">> \o v.text \o <<"\"">> ELSE v.text

RECURSIVE JsonJoin(_, _)
JsonJoin(ms, isobj) ==
    IF ms = <<>> THEN <<>>
    ELSE (IF isobj THEN <<"\"">> \o Head(ms).k \o <<"\"", ":", " ">> ELSE <<>>)
         \o JsonScalar(Head(ms).v)
         \o (IF Len(ms) > 1 THEN <<",", " ">> ELSE <<>>)
         \o JsonJoin(Tail(ms), isobj)

JsonText(v) ==
    CASE v.kind = "arr" -> <<"[">> \o JsonJoin(v.members, FALSE) \o <<"]">>
      [] v.kind = "obj" -> <<"{">> \o JsonJoin(v.members, TRUE) \o <<"}">>
      [] OTHER -> JsonScalar(v)

PlainText(v) == IF v.kind = "str" THEN v.text ELSE JsonText(v)

\* The error classes of the specification.
ErrorClass(e) ==
    CASE e = "JSONDecodeError" -> "MalformedValueError"
      [] e = "ParameterNotFound" -> "NotFoundError"
      [] e = "AccessDeniedException" -> "AccessDeniedError"
      [] e = "NoCredentialsError" -> "AuthenticationError"
      [] e \in {"PermissionError", "OSError"} -> "IOError"
      [] OTHER -> "unclassified"

Untouched(p) ==
    /\ ~proc[p].opened
    /\ ~Executed(p, "open")
    /\ file = proc[p].before

----------------------------------------------------------------------------
C2_NonObjectLeavesFile ==
    \A p \in SeqProcs :
        /\ Done(p) /\ Fetched(p)
        /\ JsonValid(proc[p].parameter_value)
        /\ proc[p].parameter_value.kind # "obj"
        /\ proc[p].err # "PermissionError"
        => /\ proc[p].exit # 0
           /\ ErrorClass(proc[p].err) = "MalformedValueError"
           /\ file = proc[p].before

C4_SecondRunReplaces ==
    \A p \in SeqProcs :
        Completed(p)
        => file = [exists |-> TRUE, data |-> RunOutput(proc[p].parameter_value)]

\* the second of two successful runs wrote fewer lines than the first
C4_Witness ==
    /\ Completed(1)
    /\ proc[1].prevExit = 0
    /\ proc[1].before.exists
    /\ Len(proc[1].before.data) > Len(file.data)
    /\ file.data # <<>>
    /\ ~IsPrefix(file.data, proc[1].before.data)

\* C5: when the store answers that the parameter does not exist or that
\* access is denied, the run fails with that error of the store and .env is
\* not opened or modified.
C5_StoreErrorPropagates ==
    \A p \in SeqProcs :
        Done(p) /\ proc[p].storeErr # ""
        => /\ proc[p].exit # 0
           /\ proc[p].err = proc[p].storeErr
           /\ ErrorClass(proc[p].err) \in {"NotFoundError", "AccessDeniedError"}
           /\ Untouched(p)

\* a run on a missing parameter has ended beside a file that has content
C5_Witness ==
    /\ Done(1)
    /\ proc[1].storeErr = "ParameterNotFound"
    /\ proc[1].before.data # <<>>

\* C6: without the positional argument the program exits non-zero with a
\* usage message and no statement of savessm is executed: no session, no
\* request, .env not touched.
C6_UsageError ==
    \A p \in SeqProcs :
        Done(p) /\ proc[p].argv = <<>>
        => /\ proc[p].exit # 0
           /\ proc[p].usage
           /\ proc[p].steps = <<>>
           /\ Untouched(p)

\* the program has ended on a usage error beside a file that has content
C6_Witness ==
    /\ Done(1)
    /\ proc[1].argv = <<>>
    /\ proc[1].usage
    /\ proc[1].before.data # <<>>

\* C7 (as stated): the text after "key=" is the raw string for a string and
\* the JSON text for a number, a boolean, an array or an object.
C7_ValuesAsJsonText ==
    \A p \in SeqProcs :
        Completed(p)
        => LET items == proc[p].vars.items
           IN file.data =
                Concat([i \in 1..Len(items) |->
                          items[i].k \o <<"=">> \o PlainText(items[i].v) \o <<"\n">>])

\* C8 (as stated): when two parallel runs with different values both
\* complete, .env holds the complete output of one of them.
C8_LastWriterWins ==
    \A p, q \in Procs :
        /\ p # q /\ Completed(p) /\ Completed(q)
        /\ proc[p].parameter_value # proc[q].parameter_value
        => file.data \in {RunOutput(proc[p].parameter_value),
                          RunOutput(proc[q].parameter_value)}

\* C8 (amended): when two runs both complete and one of them opened .env
\* only after the other had closed it, .env holds the complete output of
\* the run that opened last.
C8_LaterRunWins ==
    \A p, q \in Procs :
        /\ p # q /\ Completed(p) /\ Completed(q)
        /\ q \in proc[p].seenClosed
        => file = [exists |-> TRUE, data |-> RunOutput(proc[p].parameter_value)]

\* run 1 opened after run 2 had closed, and wrote less than run 2
C8_Witness ==
    /\ Completed(1) /\ Completed(2)
    /\ 2 \in proc[1].seenClosed
    /\ proc[1].parameter_value # proc[2].parameter_value
    /\ file.data # <<>>
    /\ Len(RunOutput(proc[1].parameter_value)) < Len(RunOutput(proc[2].parameter_value))

\* A write to the opened file failed: f.write raised, or the flush at close.
WriteFailed(p) ==
    Done(p) /\ proc[p].opened /\ proc[p].err \in {"UnicodeEncodeError", "OSError"}

\* C9: when a write fails after .env was opened, the run fails and .env
\* holds a prefix of what the run meant to write, not what it held before
\* (the whole lines before the failing one when f.write itself fails).
C9_PartialFileLeft ==
    \A p \in SeqProcs :
        WriteFailed(p)
        => /\ proc[p].exit # 0
           /\ file.exists
           /\ IsPrefix(file.data, RunOutput(proc[p].parameter_value))
           /\ proc[p].err = "UnicodeEncodeError"
              => LET items == proc[p].vars.items
                 IN file.data =
                      Concat([i \in 1..proc[p].idx |->
                                FormatLine(items[i].k, items[i].v)])

\* a write failed after one line; the longer content of before is gone
C9_Witness ==
    /\ WriteFailed(1)
    /\ proc[1].err = "UnicodeEncodeError"
    /\ file.data # <<>>
    /\ Len(proc[1].before.data) > Len(file.data)
    /\ file # proc[1].before

\* The statements run in the order session, client, fetch, parse, open,
\* line writes, close, each but the line writes at most once.
Rank(s) ==
    CASE s = "session" -> 1
      [] s = "client" -> 2
      [] s = "fetch" -> 3
      [] s = "parse" -> 4
      [] s = "open" -> 5
      [] s = "write" -> 6
      [] s = "close" -> 7

InOrder(steps) ==
    /\ steps # <<>> => steps[1] = "session"
    /\ \A i \in 1..(Len(steps) - 1) :
         \/ Rank(steps[i + 1]) = Rank(steps[i]) + 1
         \/ steps[i] = "write" /\ steps[i + 1] = "write"
         \/ steps[i] = "open" /\ steps[i + 1] = "close"

ExitZeroOnlyWhenWritten(p) ==
    Done(p) /\ proc[p].exit = 0
    => /\ proc[p].steps # <<>>
       /\ proc[p].steps[Len(proc[p].steps)] = "close"
       /\ proc[p].failedAt = 0
       /\ \A s \in {"session", "client", "fetch", "parse", "open"} : Executed(p, s)
       /\ proc[p].idx = Len(proc[p].vars.items)
       /\ proc[p].buf = <<>>
       /\ file.data = RunOutput(proc[p].parameter_value)

\* C10 (as stated): the statements of a run execute in program order, each
\* at most once (one get_parameter call); the run exits 0 only when the
\* file was fully written and closed; and after a failure of any statement
\* no later one is executed (stated for the runs whose value is a JSON
\* object).
C10_FailureStopsEverything ==
    \A p \in SeqProcs :
        /\ InOrder(proc[p].steps)
        /\ ExitZeroOnlyWhenWritten(p)
        /\ proc[p].failedAt # 0 /\ proc[p].vars.isdict
           => /\ Len(proc[p].steps) = proc[p].failedAt
              /\ Done(p) => proc[p].exit # 0

\* C10 (amended): the statements of a run execute in program order, each
\* at most once (one get_parameter call); the run exits 0 only when the
\* file was fully written and closed; and after a failure of any statement
\* the run ends with a non-zero status and no later statement is executed,
\* except that a file already opened is still closed.
C10_FailureStopsButCloses ==
    \A p \in SeqProcs :
        /\ InOrder(proc[p].steps)
        /\ ExitZeroOnlyWhenWritten(p)
        /\ proc[p].failedAt # 0
           => \/ /\ Len(proc[p].steps) = proc[p].failedAt
                 /\ \/ Done(p) /\ proc[p].exit # 0
                    \/ proc[p].pc = "close" /\ proc[p].opened
              \/ /\ Len(proc[p].steps) = proc[p].failedAt + 1
                 /\ proc[p].steps[Len(proc[p].steps)] = "close"
                 /\ proc[p].opened
                 /\ Done(p) /\ proc[p].exit # 0

\* a run failed in the line writes and then closed the file
C10_Witness ==
    /\ Done(1)
    /\ proc[1].failedAt # 0
    /\ proc[1].steps[proc[1].failedAt] = "write"
    /\ Len(proc[1].steps) = proc[1].failedAt + 1
    /\ proc[1].exit = 1

====
